---- MODULE Spec2Model ----
(***************************************************************************)
(* aichat_nvim: the selection window (src/src/ui.rs) and the global        *)
(* configuration (src/src/config.rs) as state machines.                    *)
(*                                                                         *)
(* The host editor is an opaque collaborator: every call into it that the  *)
(* code checks for an error (get_cursor, close, open_win, set_keymap,      *)
(* notify ...) is an input of the action, drawn from its possible outcomes.*)
(***************************************************************************)
EXTENDS Integers, Sequences, FiniteSets, TLC

\* ---------------------------------------------------------------- bounds
MaxItems == 2    \* longest item list presented
MaxEvents == 3   \* key presses delivered to one selection window
MaxLocks == 3    \* acquisitions of the configuration lock
MaxTextLines == 4  \* lines of a text handed to extract_first_code_block

\* ---------------------------------------------------------------- values
\* Rust's Option::None (no item string and no mode is spelled like this).
None == "None"

Alphabet == {"a", "b"}

\* Vec<Box<str>> of at most MaxItems items, duplicates allowed.
ItemLists == UNION {[1..n -> Alphabet] : n \in 0..MaxItems}

VARIABLES
    ui,        \* one UiSelect instance with its window, keymaps and callback
    trace,     \* the key presses the host delivered to it, oldest first
    vs,        \* one vim_ui_select call
    CONFIG,    \* the AichatConfig inside the global mutex
    snapshot,  \* the configuration as last read through get_config()
    lastWrite, \* the last mode pair an update_config call was asked to store
    cfgOp,     \* the last operation on the configuration store
    locks,     \* number of CONFIG.lock() calls so far
    holder,    \* who keeps a MutexGuard of CONFIG alive across a blocking call
    poisoned,  \* the mutex is poisoned: a guard was dropped by a panic
    job,       \* the :Aichat command: document, external process, result
    ex,        \* one text handed to extract_first_code_block and its result
    menu,      \* the UiSelect of show_config_menu
    sub,       \* the UiSelect of handle_config_selection
    lay,       \* one call of create_window_config and its result
    pipe,      \* run_aichat_command and its child process, byte by byte
    sect       \* the calls made while a guard of CONFIG is alive

vars == <<ui, trace, vs, CONFIG, snapshot, lastWrite, cfgOp, locks, holder,
          poisoned, job, ex, menu, sub, lay, pipe, sect>>
uiVars == <<ui, trace, vs>>
cfgVars == <<CONFIG, snapshot, lastWrite, cfgOp, locks, holder, poisoned>>
runVars == <<job, ex>>
chainVars == <<menu, sub>>
fineVars == <<lay, pipe, sect>>

\* ------------------------------------------------------------- UiSelect
\* UiSelect::new(items): nothing is shown yet.
\*   ret        what show_with_callback returned ("none": not called yet)
\*   surface    whether the host shows the floating window
\*   window_rc  the Rc<RefCell<Option<Window>>> shared by the two keymaps
\*   keymaps    the buffer-local keymaps that were registered
\*   calls      every invocation of the caller's callback: its argument,
\*              whether the window was still shown when it started, and how
\*              the callback ended
\*   errs       the api::err_writeln messages, oldest first
\*   unwound    a panic left a key handler (nothing in ui.rs catches it)
NewUiSelect(items) ==
    [items |-> items, ret |-> "none", surface |-> FALSE, window_rc |-> None,
     keymaps |-> {}, calls |-> <<>>, errs |-> <<>>, unwound |-> FALSE]

\* The host calls of show_with_callback that can fail, in program order.
ShowFailures ==
    {"none", "create_window_config", "create_configured_buffer", "open_win",
     "set_option_value", "set_keymap_cr", "set_keymap_esc"}

\* show_with_callback up to its return; fail names the first host call that
\* returned an error ("none": all succeeded).  Nothing here looks at the
\* number of items: an empty list opens a window like any other.
show_with_callback(u, fail) ==
    IF fail = "create_window_config"
    THEN [u EXCEPT !.errs = Append(@, "Failed to create window config"),
                   !.ret = "Err"]
    ELSE IF fail = "create_configured_buffer"
    THEN [u EXCEPT !.errs = Append(@, "Failed to create buffer"),
                   !.ret = "Err"]
    ELSE IF fail = "open_win"
    THEN [u EXCEPT !.ret = "Err"]
    ELSE IF fail = "set_option_value"
    THEN [u EXCEPT !.surface = TRUE, !.ret = "Err"]
    ELSE IF fail = "set_keymap_cr"
    THEN [u EXCEPT !.surface = TRUE, !.ret = "Err"]
    ELSE IF fail = "set_keymap_esc"
    THEN [u EXCEPT !.surface = TRUE, !.window_rc = "Window",
                   !.keymaps = {"<CR>"}, !.ret = "Err"]
    ELSE [u EXCEPT !.surface = TRUE, !.window_rc = "Window",
                   !.keymaps = {"<CR>", "<ESC>"}, !.ret = "Ok"]

\* w.borrow_mut().take(): the shared cell is left empty.
TakeKeepsWindow(u) == u

Take(u) == [u EXCEPT !.window_rc = None]

\* The zero-based index the <CR> handler looks up for cursor row `row`.
CursorIndexOffByOne(row) == row

CursorIndex(row) == row - 1

\* Vec::get: the element at a zero-based index, or None.
Get(items, index) ==
    IF index \in 0..(Len(items) - 1) THEN items[index + 1] ELSE None

\* win.close(false) and the handling of its result: the host closes the
\* window, or returns an error and leaves the window as it is.
WinClose(u, close_ok) ==
    IF close_ok
    THEN [u EXCEPT !.surface = FALSE]
    ELSE [u EXCEPT !.errs = Append(@, "Failed to close window")]

\* How a run of the caller's callback can end.
CallbackOutcomes == {"Ok", "Err", "panic"}

\* callback(line.to_string()) and the handling of its result.
InvokeCallback(u, arg, cb) ==
    LET called == [u EXCEPT !.calls = Append(@, [arg |-> arg,
                                                   surface |-> u.surface,
                                                   outcome |-> cb])]
    IN  IF cb = "Err"
        THEN [called EXCEPT !.errs = Append(@, "Callback error")]
        ELSE IF cb = "panic"
        THEN [called EXCEPT !.unwound = TRUE]
        ELSE called

\* What win.get_cursor() returns: an error, or the 1-based row.
CursorErr == [ok |-> FALSE, row |-> 0]

CursorAt(row) == [ok |-> TRUE, row |-> row]

\* The rows the host can report for the cursor: a line of the buffer (an
\* empty list leaves the buffer's one empty line), or one past the items
\* when buffer and items are out of step.
CursorRows(items) == 1..(Len(items) + 1)

CursorResults(items) == {CursorErr} \cup {CursorAt(r) : r \in CursorRows(items)}

\* The <CR> keymap closure.
CrHandler(u, cursor, close_ok, cb) ==
    IF u.window_rc # None
    THEN LET t == Take(u)
         IN  IF ~cursor.ok
             THEN [t EXCEPT !.errs = Append(@, "Failed to get cursor")]
             ELSE LET line == Get(t.items, CursorIndex(cursor.row))
                  IN  IF line = None
                      THEN [t EXCEPT !.errs = Append(@, "No lines found")]
                      ELSE InvokeCallback(WinClose(t, close_ok), line, cb)
    ELSE [u EXCEPT !.errs = Append(@, "No window found")]

\* The <ESC> keymap closure: it closes the window and calls nothing.
EscHandler(u, close_ok) ==
    IF u.window_rc # None
    THEN WinClose(Take(u), close_ok)
    ELSE [u EXCEPT !.errs = Append(@, "No window found")]

\* --------------------------------------------------------- vim_ui_select
\* vim_ui_select(items, opts, callback) before it is called.
\*   pending  the Lua callback handed to vim.ui.select has not run yet
\*   calls    the (item, index) pairs the caller's callback received
NewVimUiSelect(items) ==
    [items |-> items, ret |-> "none", pending |-> FALSE, calls |-> <<>>]

\* vim_ui_select up to its return: an empty list is answered at once.
vim_ui_select(v, host_ok) ==
    IF v.items = <<>>
    THEN [v EXCEPT !.calls = Append(@, [item |-> None, index |-> 0]),
                   !.ret = "Ok"]
    ELSE IF host_ok
    THEN [v EXCEPT !.pending = TRUE, !.ret = "Ok"]
    ELSE [v EXCEPT !.ret = "Err"]

\* callback_wrapper: vim.ui.select answers with (choice, idx), or (nil, nil)
\* when the user dismissed it; index 0 stands for nil.
callback_wrapper(v, index) ==
    [v EXCEPT !.pending = FALSE,
              !.calls = Append(@, [item |-> IF index = 0 THEN None
                                             ELSE v.items[index],
                                   index |-> index])]

\* ------------------------------------------------- selection: actions
InitSelect ==
    /\ \E items \in ItemLists :
         /\ ui = NewUiSelect(items)
         /\ vs = NewVimUiSelect(items)
    /\ trace = <<>>

\* ui.show_with_callback(title, callback)
Show ==
    /\ ui.ret = "none"
    /\ \E fail \in ShowFailures : ui' = show_with_callback(ui, fail)
    /\ UNCHANGED <<trace, vs>>
    /\ UNCHANGED <<cfgVars, runVars, chainVars, fineVars>>

\* The host delivers a key press to a registered keymap.  A press is
\* recorded with whether the window cell was still full and, for <CR>, with
\* the cursor the handler then read.
PressCR ==
    /\ "<CR>" \in ui.keymaps
    /\ ~ui.unwound
    /\ Len(trace) < MaxEvents
    /\ \E cursor \in (IF ui.window_rc # None THEN CursorResults(ui.items)
                                             ELSE {CursorErr}),
          close_ok \in BOOLEAN, cb \in CallbackOutcomes :
         /\ ui' = CrHandler(ui, cursor, close_ok, cb)
         /\ trace' = Append(trace, [key |-> "<CR>",
                                    full |-> ui.window_rc # None,
                                    cursor |-> cursor])
    /\ UNCHANGED vs
    /\ UNCHANGED <<cfgVars, runVars, chainVars, fineVars>>

PressESC ==
    /\ "<ESC>" \in ui.keymaps
    /\ ~ui.unwound
    /\ Len(trace) < MaxEvents
    /\ \E close_ok \in BOOLEAN : ui' = EscHandler(ui, close_ok)
    /\ trace' = Append(trace, [key |-> "<ESC>",
                              full |-> ui.window_rc # None,
                              cursor |-> CursorErr])
    /\ UNCHANGED vs
    /\ UNCHANGED <<cfgVars, runVars, chainVars, fineVars>>

\* vim_ui_select(items, opts, callback)
VimUiSelect ==
    /\ vs.ret = "none"
    /\ \E host_ok \in BOOLEAN : vs' = vim_ui_select(vs, host_ok)
    /\ UNCHANGED <<ui, trace>>
    /\ UNCHANGED <<cfgVars, runVars, chainVars, fineVars>>

\* vim.ui.select runs the Lua callback with the user's choice.
VimUiChoice ==
    /\ vs.pending
    /\ \E index \in 0..Len(vs.items) : vs' = callback_wrapper(vs, index)
    /\ UNCHANGED <<ui, trace>>
    /\ UNCHANGED <<cfgVars, runVars, chainVars, fineVars>>

NextSelect == Show \/ PressCR \/ PressESC \/ VimUiSelect \/ VimUiChoice

\* -------------------------------------------------- configuration store
Modes == {"Role", "Agent", "Macro"}

Values == {"x", "y"}

\* The option types handle_config_selection passes, and one that no match
\* arm of update_config knows.
OptionTypes == {"roles", "agents", "macros", "sessions", "rags"}

AnyOptionType == OptionTypes \cup {"bogus"}

\* The Lazy initialiser of CONFIG: every field None.
EmptyConfig ==
    [mode_flag |-> None, mode_arg |-> None, rag |-> None, session |-> None]

\* The match of update_config on option_type, applied to the locked
\* configuration.  value and mode are Options (None, or the payload).
UpdateKeepsArg(c, option_type, value, mode) ==
    IF option_type \in {"roles", "agents", "macros"}
    THEN IF mode # None
         THEN [c EXCEPT !.mode_flag = IF value # None THEN mode ELSE None,
                        !.mode_arg = IF value # None THEN value ELSE @]
         ELSE c
    ELSE IF option_type = "sessions"
    THEN [c EXCEPT !.session = value]
    ELSE IF option_type = "rags"
    THEN [c EXCEPT !.rag = value]
    ELSE c

UpdateKeepsFlag(c, option_type, value, mode) ==
    IF option_type \in {"roles", "agents", "macros"}
    THEN IF mode # None
         THEN [c EXCEPT !.mode_flag = mode, !.mode_arg = value]
         ELSE c
    ELSE IF option_type = "sessions"
    THEN [c EXCEPT !.session = value]
    ELSE IF option_type = "rags"
    THEN [c EXCEPT !.rag = value]
    ELSE c

UpdateSessionClearsRag(c, option_type, value, mode) ==
    IF option_type \in {"roles", "agents", "macros"}
    THEN IF mode # None
         THEN [c EXCEPT !.mode_flag = IF value # None THEN mode ELSE None,
                        !.mode_arg = value]
         ELSE c
    ELSE IF option_type = "sessions"
    THEN [c EXCEPT !.session = value, !.rag = None]
    ELSE IF option_type = "rags"
    THEN [c EXCEPT !.rag = value]
    ELSE c

UpdateMatch(c, option_type, value, mode) ==
    IF option_type \in {"roles", "agents", "macros"}
    THEN IF mode # None
         THEN [c EXCEPT !.mode_flag = IF value # None THEN mode ELSE None,
                        !.mode_arg = value]
         ELSE c
    ELSE IF option_type = "sessions"
    THEN [c EXCEPT !.session = value]
    ELSE IF option_type = "rags"
    THEN [c EXCEPT !.rag = value]
    ELSE c

\* What update_config returns: the error of the unknown option type, else
\* the result of the closing api::notify.
\* An Ok(()), and an Err with its message and the name the message carries.
Ok == [ok |-> TRUE, error |-> None, name |-> None]

Err(error, name) == [ok |-> FALSE, error |-> error, name |-> name]

UpdateResultNoName(option_type, notify_ok) ==
    IF option_type \notin OptionTypes
    THEN Err("Invalid option type", None)
    ELSE IF notify_ok THEN Ok ELSE Err("notify", None)

UpdateResult(option_type, notify_ok) ==
    IF option_type \notin OptionTypes
    THEN Err("Invalid option type", option_type)
    ELSE IF notify_ok THEN Ok ELSE Err("notify", None)

\* CONFIG.lock(): it waits while another guard is alive.
LockIgnoresHolder(h) == TRUE

LockFree(h) == h = None

\* What CONFIG.lock() returns once the mutex is free.
LockResult(p) == IF p THEN "Poisoned" ELSE "Ok"

\* The match of get_config on the lock result: both arms give the guard
\* (poisoned.into_inner() for a poisoned mutex).
LockGuardPropagatesPoison(lock_result) ==
    IF lock_result = "Ok" THEN "guard" ELSE None

LockGuard(lock_result) == "guard"

\* get_config(): the guard gives the configuration stored in the mutex.
get_config(c) == c

InitConfig ==
    /\ CONFIG = EmptyConfig
    /\ snapshot = EmptyConfig
    /\ lastWrite = [written |-> FALSE, mode |-> None, value |-> None]
    /\ cfgOp = [op |-> "init", option_type |-> None, value |-> None,
                mode |-> None, lock |-> None, acquired |-> FALSE,
                result |-> Ok]
    /\ locks = 0
    /\ holder = None
    /\ poisoned = FALSE

\* The operation that found no guard (only a get_config that hands the
\* poison on has this outcome).
NoGuard == Err("PoisonError", None)

\* update_config(option_type, value, mode): one lock acquisition, held to
\* the return.  lastWrite remembers the request of a call that reaches the
\* mode arm with a mode.
update_config(option_type, value, mode, notify_ok) ==
    /\ locks < MaxLocks
    /\ LockFree(holder)
    /\   LET guard == LockGuard(LockResult(poisoned))
         IN  /\ CONFIG' = IF guard # None
                          THEN UpdateMatch(get_config(CONFIG), option_type,
                                           value, mode)
                          ELSE CONFIG
             /\ cfgOp' = [op |-> "update_config",
                          option_type |-> option_type,
                          value |-> value, mode |-> mode,
                          lock |-> LockResult(poisoned),
                          acquired |-> guard # None,
                          result |-> IF guard # None
                                     THEN UpdateResult(option_type, notify_ok)
                                     ELSE NoGuard]
             /\ lastWrite' =
                  IF option_type \in {"roles", "agents", "macros"} /\ mode # None
                  THEN [written |-> TRUE,
                        mode |-> IF value # None THEN mode ELSE None,
                        value |-> value]
                  ELSE lastWrite
    /\ locks' = locks + 1
    /\ UNCHANGED <<snapshot, holder, poisoned>>

\* update_config called with any arguments.
UpdateConfig ==
    /\ \E option_type \in AnyOptionType, value \in Values \cup {None},
          mode \in Modes \cup {None}, notify_ok \in BOOLEAN :
         update_config(option_type, value, mode, notify_ok)
    /\ UNCHANGED <<uiVars, runVars, chainVars, fineVars>>

\* A reader takes the lock through get_config() and looks at the fields.
ReadConfig ==
    /\ locks < MaxLocks
    /\ LockFree(holder)
    /\ LET guard == LockGuard(LockResult(poisoned))
       IN  /\ snapshot' = IF guard # None THEN get_config(CONFIG) ELSE snapshot
           /\ cfgOp' = [op |-> "get_config", option_type |-> None,
                        value |-> None, mode |-> None,
                        lock |-> LockResult(poisoned),
                        acquired |-> guard # None,
                        result |-> IF guard # None THEN Ok ELSE NoGuard]
    /\ locks' = locks + 1
    /\ UNCHANGED <<CONFIG, lastWrite, holder, poisoned>>
    /\ UNCHANGED <<uiVars, runVars, chainVars, fineVars>>

\* The lines show_current_config writes into its buffer.
ReportLines(c) ==
    << <<"Current Aichat Configuration:">>,
       <<"">>,
       IF c.mode_flag # None
       THEN IF c.mode_arg # None
            THEN <<"Mode:", c.mode_flag, "-", c.mode_arg>>
            ELSE <<"Mode:", c.mode_flag>>
       ELSE <<"Mode: Not set">>,
       IF c.rag # None THEN <<"RAG:", c.rag>> ELSE <<"RAG: Not set">>,
       IF c.session # None THEN <<"Session:", c.session>>
                           ELSE <<"Session: Not set">> >>

\* let width = 50
ReportWidth == 50

\* The editor sizes get_width() and get_height() report.
EditorWidths == {40, 80}

EditorHeights == {4, 24}

\* a - b on u32 leaves the range of u32.
Underflows(a, b) == a < b

\* The host calls of show_current_config that can fail: one before the
\* centering arithmetic, one after it.
ReportFailures == {"none", "create_buf", "open_win"}

\* What show_current_config ends with.  With overflow checks (a debug
\* build) a subtraction that underflows panics; without them it wraps and
\* the window is placed far off screen.
show_current_config(c, width_editor, height_editor, overflow_checks, fail) ==
    IF fail = "create_buf"
    THEN Err("host", None)
    ELSE IF overflow_checks
            /\ (Underflows(height_editor, Len(ReportLines(c)))
                \/ Underflows(width_editor, ReportWidth))
    THEN Err("panic", None)
    ELSE IF fail = "open_win"
    THEN Err("host", None)
    ELSE Ok

\* :AichatShowConfig.  The guard `config` lives to the end of the function:
\* a panic drops it while unwinding, which poisons the mutex.
ShowCurrentConfig ==
    /\ locks < MaxLocks
    /\ LockFree(holder)
    /\ \E width_editor \in EditorWidths, height_editor \in EditorHeights,
          overflow_checks \in BOOLEAN, fail \in ReportFailures :
         LET guard == LockGuard(LockResult(poisoned))
             result == IF guard # None
                       THEN show_current_config(get_config(CONFIG),
                                width_editor, height_editor,
                                overflow_checks, fail)
                       ELSE NoGuard
         IN  /\ cfgOp' = [op |-> "show_current_config",
                          option_type |-> None, value |-> None,
                          mode |-> None, lock |-> LockResult(poisoned),
                          acquired |-> guard # None, result |-> result]
             /\ snapshot' = IF result.ok THEN get_config(CONFIG) ELSE snapshot
             /\ poisoned' = (poisoned \/ result.error = "panic")
    /\ locks' = locks + 1
    /\ UNCHANGED <<CONFIG, lastWrite, holder>>
    /\ UNCHANGED <<uiVars, runVars, chainVars, fineVars>>

NextConfig == UpdateConfig \/ ReadConfig \/ ShowCurrentConfig

\* ------------------------------------------------- configuration menu
\* The items of show_config_menu.
MenuItems == <<"Set Role", "Set Agent", "Set Macro", "Set Session", "Set RAG">>

\* A UiSelect of the chain with what its callback has captured (the option
\* type and the mode) and the notifications its callback has sent.
ChainSelect(items, option_type, mode) ==
    NewUiSelect(items)
        @@ [option_type |-> option_type, mode |-> mode, notes |-> <<>>]

\* The match of the menu callback on the selected item.
MenuSelection(selection) ==
    CASE selection = "Set Role" -> [option_type |-> "roles", mode |-> "Role"]
      [] selection = "Set Agent" -> [option_type |-> "agents", mode |-> "Agent"]
      [] selection = "Set Macro" -> [option_type |-> "macros", mode |-> "Macro"]
      [] selection = "Set Session" -> [option_type |-> "sessions", mode |-> None]
      [] selection = "Set RAG" -> [option_type |-> "rags", mode |-> None]

\* What the aichat CLI lists for an option type, or its failure.
FetchOutcomes ==
    {[ok |-> FALSE, options |-> <<>>]}
        \cup {[ok |-> TRUE, options |-> o] : o \in {<<>>, <<"x">>}}

\* fetch_aichat_options for a known option type: a failure is notified and
\* returned; otherwise the listed options and "(unset)" after them.
fetch_aichat_options(fetch) ==
    IF fetch.ok
    THEN [ok |-> TRUE, options |-> Append(fetch.options, "(unset)"),
          notes |-> <<>>]
    ELSE [ok |-> FALSE, options |-> <<>>, notes |-> <<"aichat failed">>]

\* handle_config_selection(option_type, mode): the second UiSelect it
\* shows (if it shows one), its result and its notifications.
handle_config_selection(option_type, mode, fetch, notify_ok, fail) ==
    LET fetched == fetch_aichat_options(fetch)
        shown == show_with_callback(
                     ChainSelect(fetched.options, option_type, mode), fail)
    IN  IF fetched.ok
        THEN [opened |-> TRUE, sub |-> shown, ok |-> shown.ret = "Ok",
              notes |-> <<>>]
        ELSE [opened |-> FALSE, sub |-> shown, ok |-> FALSE,
              notes |-> fetched.notes \o
                        (IF notify_ok THEN <<"Failed to fetch options">>
                                      ELSE <<>>)]

\* The key presses a UiSelect of the chain has answered with a message or
\* a callback.
Answered(u) == Len(u.errs) + Len(u.calls)

\* :AichatSetConfig: show_config_menu().
ShowConfigMenu ==
    /\ menu.ret = "none"
    /\ \E fail \in ShowFailures : menu' = show_with_callback(menu, fail)
    /\ UNCHANGED sub
    /\ UNCHANGED <<uiVars, cfgVars, runVars, fineVars>>

\* <CR> in the menu: the keymap closure of the menu, whose callback is the
\* closure of show_config_menu: it calls handle_config_selection and
\* notifies an error.
MenuCR ==
    /\ "<CR>" \in menu.keymaps
    /\ Answered(menu) < MaxEvents
    /\ \E cursor \in (IF menu.window_rc # None
                      THEN CursorResults(menu.items) ELSE {CursorErr}),
          close_ok \in BOOLEAN :
        \E fetch \in (IF Len(CrHandler(menu, cursor, close_ok, "Ok").calls)
                          > Len(menu.calls)
                      THEN FetchOutcomes ELSE {[ok |-> FALSE, options |-> <<>>]}) :
        \E notify_ok \in (IF fetch.ok THEN {TRUE} ELSE BOOLEAN),
           fail \in (IF fetch.ok THEN ShowFailures ELSE {"none"}) :
         LET after == CrHandler(menu, cursor, close_ok, "Ok")
             called == Len(after.calls) > Len(menu.calls)
             selected == MenuSelection(after.calls[Len(after.calls)].arg)
             handled == handle_config_selection(selected.option_type,
                            selected.mode, fetch, notify_ok, fail)
         IN  IF called
             THEN /\ menu' = [after EXCEPT !.notes =
                                 @ \o handled.notes \o
                                 (IF handled.ok THEN <<>> ELSE <<"Error">>)]
                  /\ sub' = IF handled.opened THEN handled.sub ELSE sub
             ELSE /\ menu' = after
                  /\ sub' = sub
    /\ UNCHANGED <<uiVars, cfgVars, runVars, fineVars>>

\* <ESC> in the menu.
MenuESC ==
    /\ "<ESC>" \in menu.keymaps
    /\ Answered(menu) < MaxEvents
    /\ \E close_ok \in BOOLEAN : menu' = EscHandler(menu, close_ok)
    /\ UNCHANGED sub
    /\ UNCHANGED <<uiVars, cfgVars, runVars, fineVars>>

\* The value the callback of the second UiSelect hands to update_config:
\* None for the "(unset)" entry, the selected entry otherwise.
SelectedValueLiteral(selection) == selection

SelectedValue(selection) ==
    IF selection = "(unset)" THEN None ELSE selection

\* <CR> in the second UiSelect: its callback is the closure of
\* handle_config_selection, which calls update_config and notifies an
\* error.
SubCR ==
    /\ "<CR>" \in sub.keymaps
    /\ Answered(sub) < MaxEvents
    /\ \E cursor \in (IF sub.window_rc # None
                      THEN CursorResults(sub.items) ELSE {CursorErr}),
          close_ok \in BOOLEAN :
        \E notify_ok \in (IF Len(CrHandler(sub, cursor, close_ok, "Ok").calls)
                              > Len(sub.calls)
                          THEN BOOLEAN ELSE {TRUE}) :
         LET after == CrHandler(sub, cursor, close_ok, "Ok")
             called == Len(after.calls) > Len(sub.calls)
             selection == after.calls[Len(after.calls)].arg
         IN  IF called
             THEN /\ update_config(sub.option_type, SelectedValue(selection),
                                   sub.mode, notify_ok)
                  /\ sub' = [after EXCEPT !.notes =
                                IF notify_ok THEN Append(@, "status")
                                ELSE Append(@, "Failed to update config")]
             ELSE /\ sub' = after
                  /\ UNCHANGED cfgVars
    /\ UNCHANGED menu
    /\ UNCHANGED <<uiVars, runVars, fineVars>>

\* <ESC> in the second UiSelect.
SubESCUnsets ==
    /\ "<ESC>" \in sub.keymaps
    /\ Answered(sub) < MaxEvents
    /\ \E close_ok \in BOOLEAN : sub' = EscHandler(sub, close_ok)
    /\ IF sub.window_rc # None
       THEN update_config(sub.option_type, None, sub.mode, TRUE)
       ELSE UNCHANGED cfgVars
    /\ UNCHANGED menu
    /\ UNCHANGED <<uiVars, runVars, fineVars>>

SubESC ==
    /\ "<ESC>" \in sub.keymaps
    /\ Answered(sub) < MaxEvents
    /\ \E close_ok \in BOOLEAN : sub' = EscHandler(sub, close_ok)
    /\ UNCHANGED menu
    /\ UNCHANGED <<uiVars, cfgVars, runVars, fineVars>>

NextChain == ShowConfigMenu \/ MenuCR \/ MenuESC \/ SubCR \/ SubESC

\* -------------------------------------------------------- command runner
\* A line of text is the sequence of its characters; three characters are
\* told apart: the blank, the backtick and any other.
Blank == " "

Backtick == "backtick"

Newline == "\n"

\* The prefix of three backticks that extract_first_code_block looks for.
BareFence == <<Backtick, Backtick, Backtick>>

TaggedFence == <<Blank, Backtick, Backtick, Backtick, "x", Blank>>

\* The lines a text is made of: an empty line, plain content, the two
\* fences, and two lines with backticks that are no fence.
TextLines ==
    { <<>>, <<"x">>, BareFence, TaggedFence, <<Backtick, Backtick>>,
      <<"x", Backtick, Backtick, Backtick>> }

\* What text.lines() yields, for texts of at most MaxTextLines lines.
Texts == UNION {[1..n -> TextLines] : n \in 0..MaxTextLines}

\* str::trim: the blanks at both ends are dropped.
RECURSIVE TrimStart(_)
TrimStart(line) ==
    IF line # <<>> /\ Head(line) = Blank THEN TrimStart(Tail(line)) ELSE line

RECURSIVE TrimEnd(_)
TrimEnd(line) ==
    IF line # <<>> /\ line[Len(line)] = Blank
    THEN TrimEnd(SubSeq(line, 1, Len(line) - 1))
    ELSE line

Trim(line) == TrimEnd(TrimStart(line))

\* str::starts_with
StartsWith(line, prefix) ==
    /\ Len(line) >= Len(prefix)
    /\ SubSeq(line, 1, Len(prefix)) = prefix

\* line.trim().starts_with(three backticks)
IsFenceNoTrim(line) == StartsWith(line, BareFence)

IsFence(line) == StartsWith(Trim(line), BareFence)

\* Option<String>: the String is the sequence of its characters.
SomeBlock(code_block) == [some |-> TRUE, block |-> code_block]

NoBlock == [some |-> FALSE, block |-> <<>>]

\* How the loop of extract_first_code_block returns at a closing fence.
CloseBlockUnlessEmpty(code_block) ==
    IF code_block # <<>> THEN SomeBlock(code_block) ELSE NoBlock

CloseBlock(code_block) == SomeBlock(code_block)

\* The loop of extract_first_code_block from line i on, and what follows
\* the loop.
RECURSIVE ExtractFrom(_, _, _, _)
ExtractFrom(lines, i, in_code_block, code_block) ==
    IF i > Len(lines)
    THEN IF code_block # <<>> THEN SomeBlock(code_block) ELSE NoBlock
    ELSE IF IsFence(lines[i])
    THEN IF ~in_code_block
         THEN ExtractFrom(lines, i + 1, TRUE, code_block)
         ELSE CloseBlock(code_block)
    ELSE IF in_code_block
    THEN ExtractFrom(lines, i + 1, TRUE, code_block \o lines[i] \o <<Newline>>)
    ELSE ExtractFrom(lines, i + 1, FALSE, code_block)

extract_first_code_block(text) == ExtractFrom(text, 1, FALSE, <<>>)

\* One text of every shape is handed to extract_first_code_block.
InitExtract == ex \in {[text |-> t, done |-> FALSE] : t \in Texts}

Extract ==
    /\ ~ex.done
    /\ ex' = [text |-> ex.text, done |-> TRUE,
              result |-> extract_first_code_block(ex.text)]
    /\ UNCHANGED <<uiVars, cfgVars, job, chainVars, fineVars>>

\* The buffer :Aichat works on: two lines, or a single one.
Document == << <<"d">>, <<"d", "d">> >>

OneLine == << <<"d">> >>

\* The line ranges :Aichat can be given in a buffer.
Ranges(doc) ==
    {r \in [line1 : 1..Len(doc), line2 : 1..Len(doc)] : r.line1 <= r.line2}

\* What show_input_prompt returns: None for an empty input.
Prompts == {None, "fix"}

\* What the aichat process may write to its standard output: no fence, a
\* closed block, a block that is never closed, a block without lines, and
\* a lone fence.
Outputs ==
    { << <<"x">> >>,
      << <<"x">>, TaggedFence, <<"x">>, <<>>, BareFence, <<"x">> >>,
      << BareFence, <<"x">> >>,
      << BareFence, BareFence >>,
      << BareFence >> }

StderrText == "boom"

ExitCodes == {0, 1}

\* The flag each arm of the match on config.mode_flag passes.
ModeFlagName(mode) ==
    CASE mode = "Role" -> "--role"
      [] mode = "Agent" -> "--agent"
      [] mode = "Macro" -> "--macro"

\* The arguments run_aichat_command gives to Command::new("aichat").  The
\* match on config.mode_flag has the arms Role, Agent and Macro and no
\* other: for a configuration without a mode no command line is built.
CommandArgs(c) ==
    IF c.mode_flag \in Modes
    THEN [built |-> TRUE,
          args |-> <<ModeFlagName(c.mode_flag), c.mode_arg>>
                   \o (IF c.rag # None THEN <<"--rag", c.rag>> ELSE <<>>)
                   \o (IF c.session # None
                       THEN <<"--session", c.session>> ELSE <<>>)]
    ELSE [built |-> FALSE, args |-> <<>>]

\* Result<String> of run_aichat_command.
RunOk(block) ==
    [ok |-> TRUE, error |-> None, detail |-> None, block |-> block]

RunErr(error, detail) ==
    [ok |-> FALSE, error |-> error, detail |-> detail, block |-> <<>>]

\* output.status.success()
StatusSuccessAlways(status) == TRUE

StatusSuccess(status) == status = 0

\* run_aichat_command from wait_with_output on: the result, whether
\* extract_first_code_block was called, and what it notified.
WaitOutput(wait_ok, status, stdout, stderr) ==
    IF ~wait_ok
    THEN [result |-> RunErr("Failed to wait for aichat", None),
          extracted |-> FALSE, notes |-> <<>>]
    ELSE IF ~StatusSuccess(status)
    THEN [result |-> RunErr("aichat command failed", stderr),
          extracted |-> FALSE, notes |-> <<"aichat command failed">>]
    ELSE LET found == extract_first_code_block(stdout)
         IN  [result |-> IF found.some
                         THEN RunOk(found.block)
                         ELSE RunErr("No code block found in output", None),
              extracted |-> TRUE, notes |-> <<>>]

\* str::split_terminator on the newline.
RECURSIVE SplitTerminator(_)
SplitTerminator(s) ==
    IF s = <<>> THEN <<>>
    ELSE LET ends == {i \in 1..Len(s) : s[i] = Newline}
         IN  IF ends = {} THEN <<s>>
             ELSE LET i == CHOOSE k \in ends : \A j \in ends : k <= j
                  IN  <<SubSeq(s, 1, i - 1)>>
                      \o SplitTerminator(SubSeq(s, i + 1, Len(s)))

\* buffer.set_lines(line1 - 1..line2, true, lines)
SetLines(doc, line1, line2, lines) ==
    SubSeq(doc, 1, line1 - 1) \o lines \o SubSeq(doc, line2 + 1, Len(doc))

\* The match of aichat on the result of run_aichat_command: Ok goes on to
\* set_lines, Err returns.
ProceedsAlways(output) == TRUE

Proceeds(output) == output.ok

\* :Aichat up to the point where it waits for the process.  A failing host
\* call or an empty prompt returns before the configuration is looked at.
\* Otherwise get_config() takes the lock, and the guard, a temporary of the
\* statement that calls run_aichat_command, is held until that call has
\* returned.
AichatStart ==
    /\ job.phase = "idle"
    /\ \E range \in Ranges(job.doc), host_ok \in BOOLEAN :
        \E prompt \in IF host_ok THEN Prompts ELSE {None} :
        \E spawn_ok \in IF prompt # None THEN BOOLEAN ELSE {FALSE} :
        \E write_ok \in IF spawn_ok THEN BOOLEAN ELSE {FALSE} :
         LET base == [job EXCEPT !.line1 = range.line1,
                                 !.line2 = range.line2]
             cmd == CommandArgs(get_config(CONFIG))
             sent == [base EXCEPT !.prompt = prompt, !.ran = TRUE,
                                  !.config = get_config(CONFIG),
                                  !.built = cmd.built, !.args = cmd.args,
                                  !.notes = <<"Sending to Aichat">>]
             failed(error) ==
                 [sent EXCEPT !.phase = "done",
                              !.result = RunErr(error, None),
                              !.notes = Append(@,
                                           "Error running Aichat command")]
         IN  IF ~host_ok \/ prompt = None
             THEN /\ job' = [base EXCEPT !.phase = "done"]
                  /\ UNCHANGED <<locks, holder>>
             ELSE /\ locks < MaxLocks
                  /\ LockFree(holder)
                  /\ locks' = locks + 1
                  /\ IF ~cmd.built
                     THEN /\ job' = [sent EXCEPT !.phase = "done",
                                       !.result = RunErr("no match arm", None)]
                          /\ holder' = holder
                     ELSE IF ~spawn_ok
                     THEN /\ job' = failed("Failed to spawn aichat")
                          /\ holder' = holder
                     ELSE IF ~write_ok
                     THEN /\ job' = failed("Failed to write to stdin")
                          /\ holder' = holder
                     ELSE /\ job' = [sent EXCEPT !.phase = "running"]
                          /\ holder' = "aichat"
    /\ UNCHANGED <<CONFIG, snapshot, lastWrite, cfgOp, poisoned>>
    /\ UNCHANGED <<uiVars, ex, chainVars, fineVars>>

\* :Aichat from the exit of the process on: the rest of
\* run_aichat_command, the guard dropped, and the selected lines replaced
\* when the run gave a block.
AichatFinish ==
    /\ job.phase = "running"
    /\ \E wait_ok \in BOOLEAN :
        \E status \in IF wait_ok THEN ExitCodes ELSE {0} :
        \E stdout \in IF wait_ok THEN Outputs ELSE {<<>>} :
        \E set_ok \in BOOLEAN :
         LET output == WaitOutput(wait_ok, status, stdout, StderrText)
             goes_on == Proceeds(output.result)
             lines == SplitTerminator(output.result.block)
         IN  job' = [job EXCEPT
                 !.phase = "done",
                 !.waited = wait_ok,
                 !.status = status,
                 !.stdout = stdout,
                 !.extracted = output.extracted,
                 !.result = output.result,
                 !.set_ok = goes_on /\ set_ok,
                 !.doc = IF goes_on /\ set_ok
                         THEN SetLines(@, job.line1, job.line2, lines)
                         ELSE @,
                 !.notes = @ \o output.notes \o
                           (IF ~goes_on
                            THEN <<"Error running Aichat command">>
                            ELSE IF set_ok THEN <<"Success">>
                            ELSE <<"Something went wrong">>)]
    /\ holder' = None
    /\ UNCHANGED <<CONFIG, snapshot, lastWrite, cfgOp, locks, poisoned>>
    /\ UNCHANGED <<uiVars, ex, chainVars, fineVars>>

NextRun == AichatStart \/ AichatFinish

NextHold == UpdateConfig \/ ReadConfig \/ AichatStart \/ AichatFinish

\* ----------------------------------------------------------- layout
\* The byte lengths of the items of a UiSelect: short ones and one that is
\* longer than any editor window.
ItemLengths == {3, 90}

LengthLists == UNION {[1..n -> ItemLengths] : n \in 0..MaxItems}

\* The sizes get_width() and get_height() report for the current window.
ViewportWidths == {10, 80}

ViewportHeights == {1, 24}

\* self.items.iter().map(|text| text.len()).max()
RECURSIVE MaxOf(_)
MaxOf(lengths) ==
    IF lengths = <<>> THEN 0
    ELSE LET rest == MaxOf(Tail(lengths))
         IN  IF Head(lengths) > rest THEN Head(lengths) ELSE rest

\* .max().unwrap_or(20) as u32 + 2
LayoutWidth(lengths) ==
    (IF lengths = <<>> THEN 20 ELSE MaxOf(lengths)) + 2

\* (a - b) / 2 on u32.  When a < b the subtraction leaves the range of
\* u32: without overflow checks it wraps, and the record then stands for
\* (2^32 - short) / 2, with short = b - a.
HalfDifference(a, b) ==
    IF Underflows(a, b)
    THEN [wrapped |-> TRUE, short |-> b - a, value |-> 0]
    ELSE [wrapped |-> FALSE, short |-> 0, value |-> (a - b) \div 2]

\* create_window_config: an error of get_width() or get_height(), a panic
\* of a subtraction (with overflow checks), or the WindowConfig.
create_window_config(lengths, width_editor, height_editor, overflow_checks, host_ok) ==
    LET width == LayoutWidth(lengths)
        height == Len(lengths)
        row == HalfDifference(height_editor, height + 1)
        col == HalfDifference(width_editor, width)
    IN  IF ~host_ok
        THEN [outcome |-> "Err"]
        ELSE IF overflow_checks /\ (row.wrapped \/ col.wrapped)
        THEN [outcome |-> "panic"]
        ELSE [outcome |-> "Ok", width |-> width, height |-> height + 1,
              row |-> row, col |-> col]

\* Every item list in every viewport.
InitLayout ==
    lay \in {[lengths |-> l, width_editor |-> w, height_editor |-> h,
              overflow_checks |-> o, host_ok |-> k, done |-> FALSE] :
                l \in LengthLists, w \in ViewportWidths,
                h \in ViewportHeights, o \in BOOLEAN, k \in BOOLEAN}

InitLayoutIdle ==
    lay = [lengths |-> <<>>, width_editor |-> 80, height_editor |-> 24,
           overflow_checks |-> TRUE, host_ok |-> TRUE, done |-> FALSE]

Layout ==
    /\ ~lay.done
    /\ lay' = [lay EXCEPT !.done = TRUE] @@
              [result |-> create_window_config(lay.lengths, lay.width_editor,
                              lay.height_editor, lay.overflow_checks,
                              lay.host_ok)]
    /\ UNCHANGED <<pipe, sect>>
    /\ UNCHANGED <<uiVars, cfgVars, runVars, chainVars>>

InitPipeIdle == pipe = [phase |-> "idle"]

\* ------------------------------------------- the pipes of the command
\* run_aichat_command gives the child a pipe for its standard input and one
\* for its standard output.  A pipe holds at most PipeCapacity units; a write
\* to a full pipe and a read of an empty one block.
PipeCapacity == 2

MaxInput == 3

MaxOutput == 3

\* The external process: one that answers once it has read all its input,
\* and one that writes its output before it reads its input.  Both consume
\* all their input and exit once their output is written.
Programs == {"read_then_write", "write_then_read"}

\* After the spawn: nothing written yet, the child has `output` units to say.
InitPipe ==
    pipe \in {[phase |-> "writing", program |-> p, input |-> n, stdin |-> 0,
               closed |-> FALSE, pending |-> m, stdout |-> 0, seen |-> FALSE,
               exited |-> FALSE, got |-> 0] :
              p \in Programs, n \in 0..MaxInput, m \in 0..MaxOutput}

PipeRest == UNCHANGED <<lay, sect, uiVars, cfgVars, runVars, chainVars>>

\* stdin.write_all(input): one more unit goes into the child's input pipe.
ParentWrite ==
    /\ pipe.phase = "writing"
    /\ pipe.input > 0
    /\ pipe.stdin < PipeCapacity
    /\ pipe' = [pipe EXCEPT !.input = @ - 1, !.stdin = @ + 1]
    /\ PipeRest

\* write_all has returned and `stdin` goes out of scope: the pipe is closed
\* and the parent goes on to wait_with_output.
ParentClose ==
    /\ pipe.phase = "writing"
    /\ pipe.input = 0
    /\ pipe' = [pipe EXCEPT !.closed = TRUE, !.phase = "waiting"]
    /\ PipeRest

\* wait_with_output reads the child's output.
ParentRead ==
    /\ pipe.phase = "waiting"
    /\ pipe.stdout > 0
    /\ pipe' = [pipe EXCEPT !.stdout = @ - 1, !.got = @ + 1]
    /\ PipeRest

\* wait_with_output returns once the output is read to its end and the
\* child has exited.
ParentReturn ==
    /\ pipe.phase = "waiting"
    /\ pipe.exited
    /\ pipe.stdout = 0
    /\ pipe' = [pipe EXCEPT !.phase = "returned"]
    /\ PipeRest

\* Whether the child is at a read of its input, at a write of its output.
ChildReads ==
    /\ ~pipe.seen
    /\ pipe.program = "write_then_read" => pipe.pending = 0

ChildWrites ==
    /\ pipe.pending > 0
    /\ pipe.program = "read_then_write" => pipe.seen

ChildRead ==
    /\ pipe.phase \in {"writing", "waiting"}
    /\ ChildReads
    /\ pipe.stdin > 0
    /\ pipe' = [pipe EXCEPT !.stdin = @ - 1]
    /\ PipeRest

\* The child reads the end of its input: the pipe is empty and closed.
ChildEof ==
    /\ pipe.phase \in {"writing", "waiting"}
    /\ ChildReads
    /\ pipe.stdin = 0
    /\ pipe.closed
    /\ pipe' = [pipe EXCEPT !.seen = TRUE]
    /\ PipeRest

ChildWrite ==
    /\ pipe.phase \in {"writing", "waiting"}
    /\ ChildWrites
    /\ pipe.stdout < PipeCapacity
    /\ pipe' = [pipe EXCEPT !.pending = @ - 1, !.stdout = @ + 1]
    /\ PipeRest

ChildExit ==
    /\ pipe.phase \in {"writing", "waiting"}
    /\ pipe.seen
    /\ pipe.pending = 0
    /\ ~pipe.exited
    /\ pipe' = [pipe EXCEPT !.exited = TRUE]
    /\ PipeRest

NextPipe ==
    \/ ParentWrite
    \/ ParentClose
    \/ ParentRead
    \/ ParentReturn
    \/ ChildRead
    \/ ChildEof
    \/ ChildWrite
    \/ ChildExit

\* ------------------------------------------ the sections under the lock
\* No callback holds the guard of the configuration.
InitSectIdle == sect = [op |-> None, pc |-> 0, fail |-> 0, reentered |-> FALSE]

\* The functions of the repository a function's body calls.  A closure the
\* body only registers (a keymap, a menu callback) runs in a later callback,
\* not in the call.
Callees(f) ==
    CASE f = "aichat" ->
             {"show_input_prompt", "get_config", "run_aichat_command"}
      [] f = "run_aichat_command" -> {"extract_first_code_block"}
      [] f = "update_config" -> {"get_config"}
      [] f = "show_current_config" -> {"get_config"}
      [] f = "handle_config_selection" ->
             {"fetch_aichat_options", "show_with_callback"}
      [] f = "show_config_menu" -> {"show_with_callback"}
      [] OTHER -> {}

\* Whether a call of f takes the lock of the configuration.
RECURSIVE Locks(_)
Locks(f) == f = "get_config" \/ \E g \in Callees(f) : Locks(g)

\* The callbacks that keep the guard over further calls.
Sections == {"aichat", "update_config", "show_current_config"}

\* The same sections, with update_config reading the configuration again
\* for its status line.
HeldCallsRereads(op) ==
    CASE op = "aichat" -> <<"run_aichat_command">>
      [] op = "update_config" -> <<"format", "get_config", "api::notify">>
      [] op = "show_current_config" -> <<"api::create_buf">>

\* The calls made while the guard taken by `op` is alive, in order: the
\* temporary guard of aichat lives to the end of the statement that runs
\* the command, the guards of update_config and show_current_config to the
\* end of the function.
HeldCalls(op) ==
    CASE op = "aichat" -> <<"run_aichat_command">>
      [] op = "update_config" -> <<"format", "api::notify">>
      [] op = "show_current_config" ->
             <<"api::create_buf", "buffer.set_lines", "buffer.set_option",
               "buffer.set_option", "api::get_current_win",
               "current_window.get_width", "current_window.get_height",
               "api::open_win", "window.set_option", "buffer.set_keymap",
               "buffer.set_keymap">>

\* The calls of a section whose error does not end the section: they
\* return no Result, or their Result is kept in a variable.
Infallible == {"format", "api::get_current_win", "run_aichat_command"}

\* The positions of a section at which an error returns from the callback
\* (0: no call fails).
FailAt(op) ==
    {0} \cup {i \in 1..Len(HeldCalls(op)) : HeldCalls(op)[i] \notin Infallible}

SectRest == UNCHANGED <<CONFIG, snapshot, lastWrite, cfgOp, poisoned, lay,
                        pipe, uiVars, runVars, chainVars>>

\* get_config() in a callback: the guard is taken once the mutex is free.
SectionEnter ==
    /\ sect.op = None
    /\ locks < MaxLocks
    /\ LockFree(holder)
    /\ \E op \in Sections : \E fail \in FailAt(op) :
           /\ sect' = [op |-> op, pc |-> 1, fail |-> fail, reentered |-> FALSE]
           /\ holder' = op
    /\ locks' = locks + 1
    /\ SectRest

\* The next call under the guard.  A call that takes the lock again waits
\* for the guard its own thread holds; a call that fails returns from the
\* callback, which drops the guard.
SectionCall ==
    /\ sect.op # None
    /\ ~sect.reentered
    /\ sect.pc <= Len(HeldCalls(sect.op))
    /\ LET callee == HeldCalls(sect.op)[sect.pc]
       IN  IF Locks(callee)
           THEN /\ sect' = [sect EXCEPT !.reentered = TRUE]
                /\ UNCHANGED holder
           ELSE IF sect.pc = sect.fail
                THEN /\ sect' = [op |-> None, pc |-> 0, fail |-> 0,
                                 reentered |-> FALSE]
                     /\ holder' = None
                ELSE /\ sect' = [sect EXCEPT !.pc = @ + 1]
                     /\ UNCHANGED holder
    /\ UNCHANGED locks
    /\ SectRest

\* The end of the statement or of the function: the guard is dropped.
SectionLeave ==
    /\ sect.op # None
    /\ ~sect.reentered
    /\ sect.pc > Len(HeldCalls(sect.op))
    /\ sect' = [op |-> None, pc |-> 0, fail |-> 0, reentered |-> FALSE]
    /\ holder' = None
    /\ UNCHANGED locks
    /\ SectRest

NextCalls == SectionEnter \/ SectionCall \/ SectionLeave

\* ------------------------------------------------------- specifications
\* Nothing but the part a specification is about has started.
IdleJob(doc) ==
    [phase |-> "idle", doc |-> doc, line1 |-> 1, line2 |-> 1,
     prompt |-> None, ran |-> FALSE, config |-> EmptyConfig,
     built |-> FALSE, args |-> <<>>, waited |-> FALSE, status |-> 0,
     stdout |-> <<>>, extracted |-> FALSE, result |-> RunOk(<<>>),
     set_ok |-> FALSE, notes |-> <<>>]

InitJobIdle == job = IdleJob(Document)

InitExtractIdle == ex = [text |-> <<>>, done |-> FALSE]

\* The menu has not been asked for, and no second UiSelect exists.
InitChainIdle ==
    /\ menu = ChainSelect(MenuItems, None, None)
    /\ sub = ChainSelect(<<>>, None, None)

\* No selection in progress: an unshown UiSelect without items.
InitIdle ==
    /\ ui = NewUiSelect(<<>>)
    /\ vs = NewVimUiSelect(<<>>)
    /\ trace = <<>>

Init ==
    /\ InitSelect
    /\ InitConfig
    /\ InitJobIdle
    /\ InitExtractIdle
    /\ InitChainIdle
    /\ InitLayoutIdle
    /\ InitPipeIdle
    /\ InitSectIdle

Next ==
    \/ NextSelect
    \/ NextConfig
    \/ NextChain
    \/ NextRun
    \/ Layout
    \/ NextPipe
    \/ NextCalls

Spec == Init /\ [][Next]_vars

\* One selection of any item list, the configuration untouched.
SpecSelect == Init /\ [][NextSelect]_vars

InitStore ==
    /\ InitIdle
    /\ InitConfig
    /\ InitJobIdle
    /\ InitExtractIdle
    /\ InitChainIdle
    /\ InitLayoutIdle
    /\ InitPipeIdle
    /\ InitSectIdle

\* The configuration store on its own.
SpecConfig == InitStore /\ [][NextConfig]_vars

InitTexts ==
    /\ InitIdle
    /\ InitConfig
    /\ InitJobIdle
    /\ InitExtract
    /\ InitChainIdle
    /\ InitLayoutIdle
    /\ InitPipeIdle
    /\ InitSectIdle

\* The configurations update_config can leave in the store.
Configurations ==
    {c \in [mode_flag : Modes \cup {None}, mode_arg : Values \cup {None},
            rag : Values \cup {None}, session : Values \cup {None}] :
        (c.mode_flag = None) <=> (c.mode_arg = None)}

InitRun ==
    /\ InitIdle
    /\ CONFIG \in Configurations
    /\ snapshot = EmptyConfig
    /\ lastWrite = [written |-> FALSE, mode |-> None, value |-> None]
    /\ cfgOp = [op |-> "init", option_type |-> None, value |-> None,
                mode |-> None, lock |-> None, acquired |-> FALSE,
                result |-> Ok]
    /\ locks = 0
    /\ holder = None
    /\ poisoned = FALSE
    /\ InitJobIdle
    /\ InitExtractIdle
    /\ InitChainIdle
    /\ InitLayoutIdle
    /\ InitPipeIdle
    /\ InitSectIdle

\* One :Aichat command on a two-line buffer, for every configuration.
SpecRun == InitRun /\ [][NextRun]_vars

InitHold ==
    /\ InitIdle
    /\ InitConfig
    /\ job = IdleJob(OneLine)
    /\ InitExtractIdle
    /\ InitChainIdle
    /\ InitLayoutIdle
    /\ InitPipeIdle
    /\ InitSectIdle

\* The configuration store, its updates and reads, and one :Aichat command.
SpecHold == InitHold /\ [][NextHold]_vars

\* The configuration menu: :AichatSetConfig and the key presses in its two
\* windows.
SpecChain == InitStore /\ [][NextChain]_vars

\* Any configuration is in the store, and snapshot is what a reader saw of
\* it before the menu is asked for.
InitMenu ==
    /\ InitIdle
    /\ CONFIG \in Configurations
    /\ snapshot = CONFIG
    /\ lastWrite = [written |-> FALSE, mode |-> None, value |-> None]
    /\ cfgOp = [op |-> "init", option_type |-> None, value |-> None,
                mode |-> None, lock |-> None, acquired |-> FALSE,
                result |-> Ok]
    /\ locks = 0
    /\ holder = None
    /\ poisoned = FALSE
    /\ InitJobIdle
    /\ InitExtractIdle
    /\ InitChainIdle
    /\ InitLayoutIdle
    /\ InitPipeIdle
    /\ InitSectIdle

\* The configuration menu asked for with any configuration in the store.
SpecMenu == InitMenu /\ [][NextChain]_vars

InitLayouts ==
    /\ InitIdle
    /\ InitConfig
    /\ InitJobIdle
    /\ InitExtractIdle
    /\ InitChainIdle
    /\ InitLayout
    /\ InitPipeIdle
    /\ InitSectIdle

\* create_window_config on every item list in every viewport.
SpecLayout == InitLayouts /\ [][Layout]_vars

InitPipes ==
    /\ InitIdle
    /\ InitConfig
    /\ InitJobIdle
    /\ InitExtractIdle
    /\ InitChainIdle
    /\ InitLayoutIdle
    /\ InitPipe
    /\ InitSectIdle

\* The parent and the child of one command on their two pipes.
SpecPipe == InitPipes /\ [][NextPipe]_vars

\* The sections under the lock, one callback after the other.
SpecCalls == Init /\ [][NextCalls]_vars

\* extract_first_code_block on every text.
SpecExtract == InitTexts /\ [][Extract]_vars

\* ------------------------------------------------------------ properties
\* The first key press the window received was <CR> with the cursor read
\* at a row that is a line of the item list.
FirstPressConfirmsAt(row) ==
    /\ trace # <<>>
    /\ trace[1].key = "<CR>"
    /\ trace[1].cursor = CursorAt(row)

\* The first key press the window received was <CR> with the cursor read
\* at a row that no item has.
FirstPressConfirmsOutOfRange ==
    /\ trace # <<>>
    /\ trace[1].key = "<CR>"
    /\ trace[1].cursor.ok
    /\ trace[1].cursor.row \notin 1..Len(ui.items)

\* C1: for one selection window and any sequence of <CR> and <ESC> presses,
\* repeated ones included, the result callback is invoked at most once.
C1_CallbackAtMostOnce == Len(ui.calls) <= 1

\* Three presses reached the window, two of them <CR>, and the callback
\* ran once.
C1_Witness ==
    /\ Len(trace) >= 3
    /\ trace[1].key = "<CR>"
    /\ trace[2].key = "<CR>"
    /\ trace[3].key = "<ESC>"
    /\ Len(ui.calls) = 1

\* C2: for every non-empty item list and every cursor row i in
\* 1..length, a confirm that is the first key press on the window invokes
\* the callback exactly once, with the item at position i in display order
\* (items[i-1] counting from zero).
C2_ConfirmDeliversItem ==
    \A i \in 1..Len(ui.items) :
        FirstPressConfirmsAt(i) =>
            /\ Len(ui.calls) = 1
            /\ ui.calls[1].arg = ui.items[i]

\* The second of two different items was confirmed and delivered.
C2_Witness ==
    /\ ui.items = <<"a", "b">>
    /\ FirstPressConfirmsAt(2)
    /\ Len(ui.calls) = 1
    /\ ui.calls[1].arg = "b"

\* C3: for every item list, the first cancel invokes the result callback
\* exactly once with None and leaves the window closed.
C3_CancelDeliversNone ==
    (trace # <<>> /\ trace[1].key = "<ESC>") =>
        /\ Len(ui.calls) = 1
        /\ ui.calls[1].arg = None
        /\ ~ui.surface

\* C4: a confirm whose cursor row maps to no item invokes the callback
\* zero times, leaves the window open and does not empty the window cell,
\* so that a later confirm or cancel still acts on the window.
C4_OutOfRangeKeepsGuard ==
    (Len(trace) = 1 /\ FirstPressConfirmsOutOfRange) =>
        /\ ui.calls = <<>>
        /\ ui.surface
        /\ ui.window_rc # None

\* C5: after show_with_callback succeeded, in every state and after every
\* error path of the key handlers, a window that is still open can still be
\* closed by a key: the window is never open with the window cell empty.
C5_OpenWindowClosable ==
    (ui.ret = "Ok" /\ ui.surface) => ui.window_rc # None

\* C6: presenting an empty item list invokes the result callback with
\* None, returns success and opens no window.
C6_EmptyListAnsweredAtOnce ==
    (ui.items = <<>> /\ ui.ret = "Ok" /\ trace = <<>>) =>
        /\ ~ui.surface
        /\ Len(ui.calls) = 1
        /\ ui.calls[1].arg = None

\* C7: whenever the result callback starts executing, the window of its
\* selection has already been closed.
C7_ClosedBeforeCallback ==
    \A k \in 1..Len(ui.calls) : ~ui.calls[k].surface

\* C8: a callback that faults (returns an error or panics) on the confirm
\* path is caught by the handler and reported with err_writeln, and the
\* fault does not leave the handler towards the host.
C8_CallbackFaultContained ==
    \A k \in 1..Len(ui.calls) :
        ui.calls[k].outcome # "Ok" =>
            /\ ~ui.unwound
            /\ \E n \in 1..Len(ui.errs) : ui.errs[n] = "Callback error"

\* mode_arg is set exactly when mode_flag is.
ModePairConsistent == (CONFIG.mode_flag = None) <=> (CONFIG.mode_arg = None)

\* C9: from the empty configuration and after any sequence of updates,
\* mode_arg is set if and only if mode_flag is set, and a step that changes
\* either field is one lock acquisition.
C9_ModePair ==
    /\ []ModePairConsistent
    /\ [][(CONFIG'.mode_flag # CONFIG.mode_flag
             \/ CONFIG'.mode_arg # CONFIG.mode_arg) => locks' = locks + 1]_vars

\* A mode was set, read, and then unset with the retrieval source kept.
C9_Witness ==
    /\ snapshot.mode_flag = "Agent"
    /\ snapshot.mode_arg = "x"
    /\ cfgOp.op = "update_config"
    /\ cfgOp.value = None
    /\ CONFIG.mode_flag = None
    /\ CONFIG.mode_arg = None

\* C10: a read that follows a write of the mode pair returns the values of
\* the most recent such write: mode m with argument x after writing them,
\* both unset after writing the mode unset.
C10_ReadAfterWrite ==
    (cfgOp.op = "get_config" /\ lastWrite.written) =>
        /\ snapshot.mode_flag = lastWrite.mode
        /\ snapshot.mode_arg = lastWrite.value

\* Agent with argument "x" was written and then read.
C10_Witness ==
    /\ cfgOp.op = "get_config"
    /\ lastWrite = [written |-> TRUE, mode |-> "Agent", value |-> "x"]
    /\ snapshot.mode_flag = "Agent"
    /\ snapshot.mode_arg = "x"

\* The step is a call of update_config.
UpdateStep == locks' = locks + 1 /\ cfgOp'.op = "update_config"

\* C12: once the mutex is poisoned (a holder panicked with the guard
\* alive), every later write still gets the guard and is applied, and every
\* later read still gets the guard and returns the stored configuration.
C12_PoisonRecovered ==
    cfgOp.lock = "Poisoned" =>
        /\ cfgOp.acquired
        /\ cfgOp.result.error # "PoisonError"
        /\ cfgOp.op = "get_config" =>
              /\ snapshot = CONFIG
              /\ lastWrite.written =>
                    /\ snapshot.mode_flag = lastWrite.mode
                    /\ snapshot.mode_arg = lastWrite.value
        /\ cfgOp.op = "update_config" =>
              /\ cfgOp.option_type = "sessions" => CONFIG.session = cfgOp.value
              /\ cfgOp.option_type = "rags" => CONFIG.rag = cfgOp.value
              /\ (cfgOp.option_type \in {"roles", "agents", "macros"}
                    /\ cfgOp.mode # None) =>
                    /\ CONFIG.mode_flag = lastWrite.mode
                    /\ CONFIG.mode_arg = lastWrite.value

\* The session was written while the mutex was poisoned.
C12_Witness ==
    /\ poisoned
    /\ cfgOp.op = "update_config"
    /\ cfgOp.lock = "Poisoned"
    /\ cfgOp.option_type = "sessions"
    /\ cfgOp.result.ok
    /\ CONFIG.session = "x"

\* C13: an update of the session leaves mode, mode argument and retrieval
\* source unchanged; an update of the retrieval source leaves mode, mode
\* argument and session unchanged; an update of the mode pair leaves
\* retrieval source and session unchanged.
C13_UpdatesAreIndependent ==
    [][UpdateStep =>
        /\ cfgOp'.option_type = "sessions" =>
              /\ CONFIG'.mode_flag = CONFIG.mode_flag
              /\ CONFIG'.mode_arg = CONFIG.mode_arg
              /\ CONFIG'.rag = CONFIG.rag
        /\ cfgOp'.option_type = "rags" =>
              /\ CONFIG'.mode_flag = CONFIG.mode_flag
              /\ CONFIG'.mode_arg = CONFIG.mode_arg
              /\ CONFIG'.session = CONFIG.session
        /\ cfgOp'.option_type \in {"roles", "agents", "macros"} =>
              /\ CONFIG'.rag = CONFIG.rag
              /\ CONFIG'.session = CONFIG.session]_vars

\* The session was set with a mode and a retrieval source in place.
C13_Witness ==
    /\ cfgOp.op = "update_config"
    /\ cfgOp.option_type = "sessions"
    /\ CONFIG.session = "x"
    /\ CONFIG.rag = "y"
    /\ CONFIG.mode_flag = "Agent"
    /\ CONFIG.mode_arg = "x"

\* C14: update_config called with an option type it does not know returns
\* an error that carries that name, does not panic and leaves every field
\* of the configuration unchanged.
C14_UnknownOptionType ==
    [][(UpdateStep /\ cfgOp'.option_type \notin OptionTypes) =>
        /\ ~cfgOp'.result.ok
        /\ cfgOp'.result.error = "Invalid option type"
        /\ cfgOp'.result.name = cfgOp'.option_type
        /\ poisoned' = poisoned
        /\ CONFIG' = CONFIG]_vars

\* An unknown option type was refused with a session stored.
C14_Witness ==
    /\ cfgOp.op = "update_config"
    /\ cfgOp.option_type = "bogus"
    /\ cfgOp.result = Err("Invalid option type", "bogus")
    /\ CONFIG.session = "x"

\* The fence lines among TextLines, by name.
FenceLine(line) == line \in {BareFence, TaggedFence}

FenceRows(text) == {i \in 1..Len(text) : FenceLine(text[i])}

\* The row of the first fence and of the next one (one past the end when
\* there is none).
Least(S) == CHOOSE i \in S : \A j \in S : i <= j

OpeningRow(text) == Least(FenceRows(text))

ClosingRow(text) ==
    LET later == {i \in FenceRows(text) : i > OpeningRow(text)}
    IN  IF later = {} THEN Len(text) + 1 ELSE Least(later)

\* The lines strictly between the opening fence and the next fence.
Between(text) == SubSeq(text, OpeningRow(text) + 1, ClosingRow(text) - 1)

Unclosed(text) == ClosingRow(text) = Len(text) + 1

\* The given lines, each followed by a newline, as one string.
RECURSIVE EachWithNewline(_)
EachWithNewline(lines) ==
    IF lines = <<>> THEN <<>>
    ELSE Head(lines) \o <<Newline>> \o EachWithNewline(Tail(lines))

\* C17 as claimed: for every output with an opening fence, extraction
\* returns exactly the lines strictly between the first opening fence and
\* the next fence (or the end of the output), each followed by a newline.
C17_ExtractsBetweenFences ==
    (ex.done /\ FenceRows(ex.text) # {}) =>
        ex.result = SomeBlock(EachWithNewline(Between(ex.text)))

\* C17 as amended: the same, except that an opening fence that is never
\* closed and has no line after it gives no block at all.
C17_ExtractsBetweenFencesOrNothing ==
    (ex.done /\ FenceRows(ex.text) # {}) =>
        ex.result = IF Unclosed(ex.text) /\ Between(ex.text) = <<>>
                    THEN NoBlock
                    ELSE SomeBlock(EachWithNewline(Between(ex.text)))

\* A block with an empty line in it, an indented tagged opening fence and
\* text after the closing fence.
C17_Witness ==
    /\ ex.done
    /\ ex.text = <<TaggedFence, <<>>, BareFence, <<"x">> >>
    /\ ex.result = SomeBlock(<<Newline>>)

\* C18: extraction gives no block if and only if the output has no opening
\* fence, or its opening fence is never closed and no line follows it; a
\* closed block without content lines gives the empty string.
C18_NoBlockExactlyWhen ==
    ex.done =>
        /\ ~ex.result.some <=>
              \/ FenceRows(ex.text) = {}
              \/ OpeningRow(ex.text) = Len(ex.text)
        /\ (FenceRows(ex.text) # {}
              /\ ClosingRow(ex.text) = OpeningRow(ex.text) + 1
              /\ ~Unclosed(ex.text)) => ex.result = SomeBlock(<<>>)

\* A closed block without content gave the empty string.
C18_Witness ==
    /\ ex.done
    /\ ex.text = <<BareFence, BareFence>>
    /\ ex.result = SomeBlock(<<>>)

\* C11 as claimed: what get_config() hands out is an independent copy, so
\* holding it does not keep the store locked: while :Aichat runs the
\* external command with the configuration it read, the lock is free.
C11_SnapshotLeavesStoreUnlocked == (job.phase = "running") => holder = None

\* C11 as amended: get_config() hands out a guard on the live configuration;
\* while a guard is held no other read or write takes the lock, so the
\* configuration seen through the guard does not change.
C11_GuardKeepsStoreLocked ==
    [][holder # None => (CONFIG' = CONFIG /\ locks' = locks)]_vars

\* :Aichat runs the external command on a configuration that updates have
\* set, holding the guard.
C11_Witness ==
    /\ job.phase = "running"
    /\ holder = "aichat"
    /\ CONFIG # EmptyConfig
    /\ job.config = CONFIG
    /\ locks < MaxLocks

\* The argument list the claim describes for a configuration.
ExpectedArgs(c) ==
    (IF c.mode_flag = None THEN <<>>
     ELSE <<CASE c.mode_flag = "Role" -> "--role"
              [] c.mode_flag = "Agent" -> "--agent"
              [] c.mode_flag = "Macro" -> "--macro", c.mode_arg>>)
    \o (IF c.rag = None THEN <<>> ELSE <<"--rag", c.rag>>)
    \o (IF c.session = None THEN <<>> ELSE <<"--session", c.session>>)

\* C15: for every configuration the argument list of the run is the mode
\* pair if and only if a mode is set (nothing when it is unset), then the
\* rag pair if and only if rag is set, then the session pair if and only
\* if session is set, and nothing else.
C15_ArgumentList ==
    job.ran => (job.built /\ job.args = ExpectedArgs(job.config))

\* C16: when the process exits with a non-zero status the run returns the
\* non-zero-exit error carrying the captured standard error, and standard
\* output is not handed to extract_first_code_block.
C16_NonZeroExit ==
    (job.phase = "done" /\ job.waited /\ job.status # 0) =>
        /\ job.result = RunErr("aichat command failed", StderrText)
        /\ ~job.extracted

\* The process failed after printing a fenced block.
C16_Witness ==
    /\ job.phase = "done"
    /\ job.waited
    /\ job.status = 1
    /\ job.stdout = <<BareFence, <<"x">> >>
    /\ job.result.detail = StderrText
    /\ ~job.extracted

\* C19: the selected lines are replaced only after the run has returned
\* success; after a cancelled prompt, a spawn failure, a write failure, a
\* non-zero exit or an output without a code block the buffer is as it was.
C19_DocumentChangesOnlyOnSuccess ==
    /\ job.doc # Document =>
          (job.phase = "done" /\ job.ran /\ job.waited /\ job.result.ok)
    /\ (job.phase = "done" /\ (~job.ran \/ ~job.result.ok)) =>
          job.doc = Document

\* The second line of the buffer was replaced by the two lines of the block.
C19_Witness ==
    /\ job.phase = "done"
    /\ job.result.ok
    /\ job.line1 = 2
    /\ job.line2 = 2
    /\ job.doc = << <<"d">>, <<"x">>, <<>> >>

\* C20: within one chained selection at most one of the two windows is
\* shown at any time: the second is opened only after the menu's window has
\* been closed.
C20_OneSurfaceAtATime == ~(menu.surface /\ sub.surface)

\* A step in which a UiSelect of the chain answers <ESC> while it still
\* holds its window: the window cell is emptied, the callback is not run,
\* and nothing is written but the message of a failed close.
CancelStep(u, v) ==
    /\ u.window_rc # None
    /\ v.window_rc = None
    /\ v.calls = u.calls
    /\ v.errs \in {u.errs, Append(u.errs, "Failed to close window")}

\* C21: cancelling in the menu or in the second UiSelect leaves every field
\* of the configuration store as it was and raises no error: the lock is
\* not taken, no notification is sent, no further window is opened, and no
\* message is written when the host closes the window.
C21_CancelLeavesStore ==
    [][(CancelStep(menu, menu') \/ CancelStep(sub, sub')) =>
          /\ UNCHANGED cfgVars
          /\ menu'.notes = menu.notes
          /\ sub'.notes = sub.notes
          /\ sub'.ret = sub.ret
          /\ (~menu'.surface => menu'.errs = menu.errs)
          /\ (~sub'.surface => sub'.errs = sub.errs)]_vars

\* The second UiSelect was cancelled over a store that holds a mode.
C21_Witness ==
    /\ sub.ret = "Ok"
    /\ sub.window_rc = None
    /\ ~sub.surface
    /\ sub.calls = <<>>
    /\ sub.errs = <<>>
    /\ sub.notes = <<>>
    /\ CONFIG.mode_flag # None
    /\ locks = 0

\* A step in which the callback of the second UiSelect runs.
SelectStep == Len(sub'.calls) > Len(sub.calls)

\* The mode category a menu entry stands for.
CategoryOf(entry) ==
    CASE entry = "Set Role" -> "Role"
      [] entry = "Set Agent" -> "Agent"
      [] entry = "Set Macro" -> "Macro"
      [] OTHER -> None

\* C22: the store holds at most one mode after any menu selection:
\* selecting a value in a mode category sets the mode to that category and
\* the argument to that value, whatever mode was there, and selecting
\* "(unset)" in a mode category clears the mode and its argument.
C22_OneModeThroughMenu ==
    [][(SelectStep /\ sub.mode # None) =>
          LET selection == sub'.calls[Len(sub'.calls)].arg
          IN  /\ sub.mode = CategoryOf(menu.calls[Len(menu.calls)].arg)
              /\ CONFIG' \in Configurations
              /\ IF selection = "(unset)"
                 THEN /\ CONFIG'.mode_flag = None
                      /\ CONFIG'.mode_arg = None
                 ELSE /\ CONFIG'.mode_flag = sub.mode
                      /\ CONFIG'.mode_arg = selection
              /\ CONFIG'.rag = CONFIG.rag
              /\ CONFIG'.session = CONFIG.session]_vars

\* "(unset)" was selected under "Set Agent" while the store held a role:
\* the mode and its argument are gone.
C22_Witness ==
    /\ snapshot.mode_flag = "Role"
    /\ snapshot.mode_arg = "y"
    /\ Len(menu.calls) = 1
    /\ menu.calls[1].arg = "Set Agent"
    /\ Len(sub.calls) = 1
    /\ sub.calls[1].arg = "(unset)"
    /\ CONFIG.mode_flag = None
    /\ CONFIG.mode_arg = None

\* The notifications of the handler of :Aichat itself.
HandlerNotes ==
    {"Sending to Aichat", "Error running Aichat command", "Success",
     "Something went wrong"}

\* C23: the components below a handler report a failure only as a returned
\* error and send no notification themselves: every notification of an
\* :Aichat command is one of its handler's.
C23_OnlyHandlerNotifies ==
    \A i \in DOMAIN job.notes : job.notes[i] \in HandlerNotes

\* C24: a failing notification never changes the outcome of an operation:
\* an update_config that returns an error has left the configuration as it
\* was (so an update that was applied reports success even when its status
\* notification fails).
C24_NotifyFailureIgnored ==
    [][(UpdateStep /\ ~cfgOp'.result.ok) => CONFIG' = CONFIG]_vars

\* C25: the layout is total: for every item list and every viewport, also
\* one smaller than the content, it completes without error, overflow or
\* underflow and gives width = longest item + padding and height = number
\* of items, centred in the viewport.
C25_LayoutTotal ==
    (lay.done /\ lay.host_ok) =>
        /\ lay.result.outcome = "Ok"
        /\ ~lay.result.row.wrapped
        /\ ~lay.result.col.wrapped
        /\ lay.result.width = LayoutWidth(lay.lengths)
        /\ lay.result.height = Len(lay.lengths)

\* C26: run_aichat_command returns for every process that consumes its input
\* and exits once its output is drained, whatever the sizes of input and
\* output against the pipe capacity: as long as it has not returned, the
\* parent or the child can take a step.
C26_RunNeverDeadlocks ==
    pipe.phase \in {"writing", "waiting"} => ENABLED NextPipe

\* C27: no call made while a callback holds the guard of the configuration
\* takes the lock again: the run action over the whole external command,
\* update_config over its notification and show_current_config over its
\* report never wait for their own guard.
C27_NoReentrantLock ==
    /\ ~sect.reentered
    /\ sect.op # None => holder = sect.op

\* update_config is at its notification, the guard still alive.
C27_Witness ==
    /\ sect.op = "update_config"
    /\ sect.pc = 2
    /\ holder = "update_config"
====
